---- MODULE Spec2Model ----
(***************************************************************************)
(* Student Management System (st10.py): the normalized SQLite store, the   *)
(* in-memory student list and the handlers that change them.               *)
(*                                                                         *)
(* The store is the committed content of the three tables.  A handler      *)
(* works on a pair (c, w): c is what is committed, w is what the open      *)
(* transaction sees.  Leaving a `with self.conn:` block normally commits   *)
(* (c := w), leaving it by an exception rolls back (w := c).  sqlite3      *)
(* has one transaction per connection, so the `with self.conn:` inside     *)
(* _get_subject_id commits whatever the caller has written so far.         *)
(*                                                                         *)
(* Database and file errors are the environment's choice: every handler    *)
(* takes a set F of fault points, the statements that raise in this call.  *)
(***************************************************************************)
EXTENDS Integers, Sequences, FiniteSets, TLC

VARIABLES students,   \* self.students: the in-memory list of Student objects
          db,         \* the committed content of students.db
          files,      \* the files under IMAGES_DIR
          shown,      \* the uids of the rows of self.tree, in display order
          running,    \* FALSE once _on_exit has destroyed the root window
          faults,     \* how many statements have raised so far
          last,       \* what the last handler did (notices shown, outcome)
          calc,       \* argument and result of the last _avg_of/_grade_of call
          sort_by,    \* self.sort_by: the column the table is sorted by
          sort_asc    \* self.sort_asc: the Asc checkbox

vars == <<students, db, files, shown, running, faults, last, calc,
         sort_by, sort_asc>>

----------------------------------------------------------------------------
(* Bounds *)

MaxSubj == 2        \* longest subject / mark entry typed into the form
MaxFails == 1       \* statements that raise during one run
MaxMarks == 3       \* longest mark list handed to _avg_of
MaxAvgH == 10000    \* largest average handed to _grade_of, in hundredths
MaxSort == 3        \* longest list handed to _apply_sorting

UIDs == {"1", "2"}
Names == {"ann", "Bob"}
Classes == {"x"}
Sections == {"a"}
SubjectOrder == <<"a", "b">>         \* the subject names, in collation order
SubjectNames == {SubjectOrder[i] : i \in 1..Len(SubjectOrder)}
MarkInputs == {"80", "abc"}          \* texts typed into the marks entry
Sources == {"p.jpg"}                 \* photos outside IMAGES_DIR
Photos == {"p.jpg", "q.jpg"}         \* two photos with one extension
Queries == {"", " ", "1", "BOB", "zz"}    \* texts typed into the search entry

SeqsUpTo(S, n) == UNION {[1..k -> S] : k \in 0..n}

RECURSIVE KSubsets(_, _)
KSubsets(S, k) ==
    IF k = 0 THEN {{}}
    ELSE LET prev == KSubsets(S, k - 1)
         IN  prev \cup {G \cup {x} : G \in prev, x \in S}

\* The sets of statements that raise in one handler, when allow more
\* statements may raise in this run.
FaultSets(points, allow) == KSubsets(points, allow)

----------------------------------------------------------------------------
(* Python values *)

None == [none |-> TRUE, v |-> 0]
Num(n) == [none |-> FALSE, v |-> n]

\* float(text) for the texts of the model; a text outside the table raises
\* ValueError.
FloatOf ==
    ("80" :> Num(80)) @@ ("80.0" :> Num(80)) @@ ("95" :> Num(95)) @@
    ("95.0" :> Num(95)) @@ ("70.0" :> Num(70))

IsFloatText(t) == t \in DOMAIN FloatOf

\* str(x) of a float: the repr that float() reads back.
FloatRepr == {"80.0", "70.0", "95.0"}
StrOfFloat(x) == CHOOSE t \in FloatRepr : FloatOf[t] = x

----------------------------------------------------------------------------
(* Student and the image files *)

NoImage == <<>>
ImagePath(uid, ext) == <<"images", uid, ext>>

Student(uid, name, student_class, section, subjects, marks, image_filename) ==
    [uid |-> uid, name |-> name, student_class |-> student_class,
     section |-> section, subjects |-> subjects, marks |-> marks,
     image_filename |-> image_filename]

NoStudent == Student("", "", "", "", <<>>, <<>>, NoImage)

Uids(list) == {list[i].uid : i \in 1..Len(list)}

\* shutil.copyfile(chosen, tgt)
CopyFile(fs, chosen, tgt) ==
    {f \in fs : f.path # tgt} \cup {[path |-> tgt, content |-> chosen]}

----------------------------------------------------------------------------
(* The tables.  Rows are kept in rowid order; a subject's id is its        *)
(* position in db.subjects (AUTOINCREMENT, and no statement deletes a      *)
(* subject).                                                               *)

EmptyDb == [students |-> <<>>, subjects |-> <<>>, links |-> <<>>]

StoredUids(d) == {d.students[i].uid : i \in 1..Len(d.students)}

LinksOf(d, uid) == SelectSeq(d.links, LAMBDA l : l.student_uid = uid)

SubjectIdOf(d, name) ==
    CHOOSE i \in 1..Len(d.subjects) : d.subjects[i] = name

\* The foreign key without ON DELETE CASCADE enforcement: link rows stay.
OnDeleteCascade_Off(links, uids) == links

\* FOREIGN KEY(student_uid) REFERENCES students(uid) ON DELETE CASCADE:
\* the link rows that survive the deletion of the student rows in uids.
OnDeleteCascade(links, uids) ==
    SelectSeq(links, LAMBDA l : l.student_uid \notin uids)

\* DELETE FROM students WHERE uid IN uids, with foreign_keys = ON.
DeleteStudents(d, uids) ==
    [d EXCEPT !.students = SelectSeq(@, LAMBDA r : r.uid \notin uids),
              !.links = OnDeleteCascade(@, uids)]

\* The insert into a students table without the PRIMARY KEY on uid.
ReplaceStudent_Insert(d, s) ==
    [d EXCEPT !.students =
        Append(@, [uid |-> s.uid, name |-> s.name,
                   student_class |-> s.student_class,
                   section |-> s.section,
                   image_filename |-> s.image_filename])]

\* INSERT OR REPLACE INTO students: a row with the same uid is deleted
\* (cascading to its links) and the new row gets a fresh rowid.
ReplaceStudent(d, s) ==
    LET d1 == DeleteStudents(d, {s.uid})
    IN  [d1 EXCEPT !.students =
            Append(@, [uid |-> s.uid, name |-> s.name,
                       student_class |-> s.student_class,
                       section |-> s.section,
                       image_filename |-> s.image_filename])]

\* The delete without its WHERE clause.
DeleteLinksOf_All(d, uid) == [d EXCEPT !.links = <<>>]

\* DELETE FROM student_subjects WHERE student_uid = ?
DeleteLinksOf(d, uid) ==
    [d EXCEPT !.links = SelectSeq(@, LAMBDA l : l.student_uid # uid)]

\* The insert without the UNIQUE constraint on subjects.name.
InsertOrIgnoreSubject_Always(d, name) ==
    [d EXCEPT !.subjects = Append(@, name)]

\* INSERT OR IGNORE INTO subjects (name) VALUES (?)
InsertOrIgnoreSubject(d, name) ==
    IF \E i \in 1..Len(d.subjects) : d.subjects[i] = name
    THEN d
    ELSE [d EXCEPT !.subjects = Append(@, name)]

\* The foreign keys of a new student_subjects row are satisfied.
ForeignKeysHold(d, uid, sid) ==
    uid \in StoredUids(d) /\ sid \in 1..Len(d.subjects)

----------------------------------------------------------------------------
(* Fault points: the statements that can raise.  i is the position of the  *)
(* db_upsert_student_normalized call within the handler, j the position    *)
(* of the (subject, mark) pair, k the position of the student row.         *)

FaultMeta(i) == <<"meta", i>>             \* INSERT OR REPLACE INTO students
FaultDelLinks(i) == <<"dellinks", i>>     \* DELETE FROM student_subjects
FaultSubject(i, j) == <<"subject", i, j>> \* the statements of _get_subject_id
FaultLink(i, j) == <<"link", i, j>>       \* INSERT INTO student_subjects
FaultDelete == <<"delete">>               \* DELETE FROM students WHERE uid = ?
FaultSync == <<"sync">>                   \* DELETE FROM students WHERE uid NOT IN
FaultLoad(k) == <<"load", k>>             \* the SELECTs of load_data
FaultCopy == <<"copy">>                   \* shutil.copyfile

Min(a, b) == IF a < b THEN a ELSE b

UpsertFaults(s, i) ==
    {FaultMeta(i), FaultDelLinks(i)} \cup
    UNION {{FaultSubject(i, j), FaultLink(i, j)} :
              j \in 1..Min(Len(s.subjects), Len(s.marks))}

LoadFaults(d) == {FaultLoad(k) : k \in 0..Len(d.students)}

----------------------------------------------------------------------------
(* Notices: the messagebox calls *)

ErrSubjectId == "Failed to get subject id"
ErrSave == "Failed to save student"
ErrDelete == "Failed to delete student"
ErrLoad == "Failed to load students from database"
ErrSync == "Failed to sync database"
DbErrors == {ErrSubjectId, ErrSave, ErrDelete, ErrLoad, ErrSync}

ErrRequired == "UID, Name and Class are required."
ErrMismatch == "Number of subjects and marks must match."
ErrNumeric == "Marks must be numeric."
ValidationErrors == {ErrRequired, ErrMismatch, ErrNumeric}
WarnCopy == "Failed to copy image"
ErrUidExists == "UID already exists."
InfoAdded == "Student added."
InfoUpdated == "Student updated."
ErrNotFound == "Student not found in memory."
InfoRemoved == "Student removed."

----------------------------------------------------------------------------
(* Database operations *)

\* Returns the subject id (0 for None), with the committed and the working
\* content after the call.
_get_subject_id(c, w, subject_name, fault) ==
    IF subject_name = ""
    THEN [c |-> c, w |-> w, sid |-> 0, notices |-> <<>>]
    ELSE IF fault
    THEN [c |-> c, w |-> c, sid |-> 0, notices |-> <<ErrSubjectId>>]
    ELSE LET w1 == InsertOrIgnoreSubject(w, subject_name)
         IN  [c |-> w1, w |-> w1, sid |-> SubjectIdOf(w1, subject_name),
              notices |-> <<>>]

\* try: mark_val = float(mk) except: mark_val = None, bound to a REAL column
MarkVal(mk) == IF IsFloatText(mk) THEN FloatOf[mk] ELSE None

\* The loop over zip(student.subjects, student.marks), from pair j on.
RECURSIVE UpsertLinks(_, _, _, _, _, _, _)
UpsertLinks(c, w, student, i, F, j, notices) ==
    IF j > Min(Len(student.subjects), Len(student.marks))
    THEN [db |-> w, notices |-> notices, failed |-> FALSE]
    ELSE LET g == _get_subject_id(c, w, student.subjects[j],
                                  FaultSubject(i, j) \in F)
             row == [student_uid |-> student.uid, subject_id |-> g.sid,
                     mark |-> MarkVal(student.marks[j])]
         IN  IF g.sid = 0
             THEN UpsertLinks(g.c, g.w, student, i, F, j + 1,
                              notices \o g.notices)
             ELSE IF FaultLink(i, j) \in F
                     \/ ~ForeignKeysHold(g.w, student.uid, g.sid)
             THEN [db |-> g.c, notices |-> notices \o <<ErrSave>>,
                   failed |-> TRUE]
             ELSE UpsertLinks(g.c, [g.w EXCEPT !.links = Append(@, row)],
                              student, i, F, j + 1, notices)

db_upsert_student_normalized(d, student, i, F) ==
    IF FaultMeta(i) \in F \/ FaultDelLinks(i) \in F
    THEN [db |-> d, notices |-> <<ErrSave>>, failed |-> TRUE]
    ELSE UpsertLinks(d, DeleteLinksOf(ReplaceStudent(d, student), student.uid),
                     student, i, F, 1, <<>>)

db_delete_student_normalized(d, uid, F) ==
    IF FaultDelete \in F
    THEN [db |-> d, notices |-> <<ErrDelete>>]
    ELSE [db |-> DeleteStudents(d, {uid}), notices |-> <<>>]

\* ORDER BY sub.name over the link rows of one student; rows with the same
\* subject keep their rowid order.
RECURSIVE OrderBySubjectName(_, _, _)
OrderBySubjectName(d, ls, r) ==
    IF r > Len(SubjectOrder) THEN <<>>
    ELSE SelectSeq(ls, LAMBDA l : d.subjects[l.subject_id] = SubjectOrder[r])
         \o OrderBySubjectName(d, ls, r + 1)

\* The Student that load_data builds from one row of students.
LoadStudent(d, srow) ==
    LET sm_rows == OrderBySubjectName(d, LinksOf(d, srow.uid), 1)
    IN  Student(srow.uid, srow.name, srow.student_class, srow.section,
                [k \in 1..Len(sm_rows) |-> d.subjects[sm_rows[k].subject_id]],
                [k \in 1..Len(sm_rows) |->
                    IF sm_rows[k].mark.none THEN ""
                    ELSE StrOfFloat(sm_rows[k].mark)],
                srow.image_filename)

RECURSIVE LoadRows(_, _, _, _)
LoadRows(d, F, k, acc) ==
    IF k > Len(d.students) THEN [students |-> acc, notices |-> <<>>]
    ELSE IF FaultLoad(k) \in F THEN [students |-> acc, notices |-> <<ErrLoad>>]
    ELSE LoadRows(d, F, k + 1, Append(acc, LoadStudent(d, d.students[k])))

load_data(d, F) ==
    IF FaultLoad(0) \in F
    THEN [students |-> <<>>, notices |-> <<ErrLoad>>]
    ELSE LoadRows(d, F, 1, <<>>)

\* The delete pass with IN for NOT IN.
SyncDeletePass_In(d, in_memory_uids) ==
    IF in_memory_uids # {}
    THEN DeleteStudents(d, StoredUids(d) \cap in_memory_uids)
    ELSE DeleteStudents(d, StoredUids(d))

\* The delete pass without the branch for an empty in-memory list.
SyncDeletePass_NoClear(d, in_memory_uids) ==
    IF in_memory_uids # {}
    THEN DeleteStudents(d, StoredUids(d) \ in_memory_uids)
    ELSE d

\* The delete pass of save_data.
SyncDeletePass(d, in_memory_uids) ==
    IF in_memory_uids # {}
    THEN DeleteStudents(d, StoredUids(d) \ in_memory_uids)
    ELSE DeleteStudents(d, StoredUids(d))

\* The upsert loop of save_data, from student i on.  failed_at collects the
\* positions whose upsert showed a database error.
RECURSIVE SaveLoop(_, _, _, _, _, _)
SaveLoop(list, d, F, i, notices, failed_at) ==
    IF i > Len(list)
    THEN [db |-> d, notices |-> notices, failed_at |-> failed_at,
          attempted |-> Len(list)]
    ELSE LET r == db_upsert_student_normalized(d, list[i], i, F)
         IN  SaveLoop(list, r.db, F, i + 1, notices \o r.notices,
                      IF r.notices # <<>> THEN failed_at \cup {i}
                      ELSE failed_at)

save_data(list, d, F) ==
    LET u == SaveLoop(list, d, F, 1, <<>>, {})
    IN  IF FaultSync \in F
        THEN [db |-> u.db, notices |-> u.notices \o <<ErrSync>>,
              failed_at |-> u.failed_at, attempted |-> u.attempted,
              delete_ran |-> TRUE]
        ELSE [db |-> SyncDeletePass(u.db, Uids(list)),
              notices |-> u.notices, failed_at |-> u.failed_at,
              attempted |-> u.attempted, delete_ran |-> TRUE]

----------------------------------------------------------------------------
(* Text: the characters of the texts of the model, for str.lower and the   *)
(* substring test of search_students.                                      *)

Chars ==
    ("" :> <<>>) @@ (" " :> <<" ">>) @@ ("1" :> <<"1">>) @@ ("2" :> <<"2">>) @@
    ("ann" :> <<"a", "n", "n">>) @@ ("Bob" :> <<"B", "o", "b">>) @@
    ("BOB" :> <<"B", "O", "B">>) @@ ("zz" :> <<"z", "z">>) @@
    ("x" :> <<"x">>) @@ ("a" :> <<"a">>) @@ ("b" :> <<"b">>) @@
    ("80.0" :> <<"8", "0", ".", "0">>) @@ ("70.0" :> <<"7", "0", ".", "0">>) @@
    ("95.0" :> <<"9", "5", ".", "0">>) @@ ("10" :> <<"1", "0">>) @@
    ("a1" :> <<"a", "1">>) @@ ("Y" :> <<"Y">>)

LowerChar(ch) ==
    CASE ch = "B" -> "b" [] ch = "O" -> "o" [] ch = "Y" -> "y" [] OTHER -> ch

Lower(cs) == [k \in 1..Len(cs) |-> LowerChar(cs[k])]

\* text.strip()
RECURSIVE Strip(_)
Strip(cs) ==
    IF cs = <<>> THEN cs
    ELSE IF Head(cs) = " " THEN Strip(Tail(cs))
    ELSE IF cs[Len(cs)] = " " THEN Strip(SubSeq(cs, 1, Len(cs) - 1))
    ELSE cs

\* sep.join(parts) over character sequences
RECURSIVE Join(_, _)
Join(sep, parts) ==
    IF parts = <<>> THEN <<>>
    ELSE IF Len(parts) = 1 THEN parts[1]
    ELSE parts[1] \o sep \o Join(sep, Tail(parts))

\* q in text
Contains(text, q) ==
    \E o \in 0..(Len(text) - Len(q)) :
        \A k \in 1..Len(q) : text[o + k] = q[k]

CharsOfAll(ts) == [k \in 1..Len(ts) |-> Chars[ts[k]]]

----------------------------------------------------------------------------
(* Averages, grades and the table *)

ThresholdA == 90
ThresholdB == 75

\* An average is None or a number of hundredths (round(x, 2)).
NoAvg == [none |-> TRUE, h |-> 0]
Avg(h) == [none |-> FALSE, h |-> h]

RECURSIVE Sum(_)
Sum(xs) == IF xs = <<>> THEN 0 ELSE Head(xs) + Sum(Tail(xs))

\* round(total / n, 2) in hundredths.  For n < 8 no mean of whole marks lies
\* halfway between two hundredths, so the nearest hundredth is unique.
RoundMean(total, n) == (200 * total + n) \div (2 * n)

\* The mean over len(student.marks), blank marks included.
_avg_of_AllMarks(marks) ==
    LET texts == SelectSeq(marks, LAMBDA x : x # "")
        vals == [k \in 1..Len(texts) |-> FloatOf[texts[k]].v]
    IN  IF marks = <<>> THEN NoAvg
        ELSE IF \E k \in 1..Len(texts) : ~IsFloatText(texts[k]) THEN NoAvg
        ELSE IF texts = <<>> THEN NoAvg
        ELSE Avg(RoundMean(Sum(vals), Len(marks)))

_avg_of(marks) ==
    LET texts == SelectSeq(marks, LAMBDA x : x # "")
        vals == [k \in 1..Len(texts) |-> FloatOf[texts[k]].v]
    IN  IF marks = <<>> THEN NoAvg
        ELSE IF \E k \in 1..Len(texts) : ~IsFloatText(texts[k]) THEN NoAvg
        ELSE IF texts = <<>> THEN NoAvg
        ELSE Avg(RoundMean(Sum(vals), Len(vals)))

\* The thresholds with > for >=.
_grade_of_Strict(avg) ==
    IF avg.none THEN "N/A"
    ELSE IF avg.h > ThresholdA * 100 THEN "A"
    ELSE IF avg.h > ThresholdB * 100 THEN "B"
    ELSE "C"

_grade_of(avg) ==
    IF avg.none THEN "N/A"
    ELSE IF avg.h >= ThresholdA * 100 THEN "A"
    ELSE IF avg.h >= ThresholdB * 100 THEN "B"
    ELSE "C"

\* int(uid) for the uids of the model; a text outside the table raises
\* ValueError.
IntOf == ("1" :> 1) @@ ("2" :> 2) @@ ("10" :> 10)

\* The characters of the lower-cased texts, in code point order.
CharOrder ==
    <<" ", ".", "0", "1", "2", "5", "7", "8", "9",
      "a", "b", "n", "o", "x", "y", "z">>

CharRank(ch) == CHOOSE r \in 1..Len(CharOrder) : CharOrder[r] = ch

\* a < b for two str values
RECURSIVE TextLess(_, _)
TextLess(a, b) ==
    IF b = <<>> THEN FALSE
    ELSE IF a = <<>> THEN TRUE
    ELSE IF Head(a) = Head(b) THEN TextLess(Tail(a), Tail(b))
    ELSE CharRank(Head(a)) < CharRank(Head(b))

\* A sort key: an int, a str, or the tuple (is_none, val) of avg_key.
IntKey(n) == [kind |-> "int", n |-> n, cs |-> <<>>, is_none |-> FALSE]
StrKey(cs) == [kind |-> "str", n |-> 0, cs |-> cs, is_none |-> FALSE]
TupleKey(is_none, val) ==
    [kind |-> "tuple", n |-> val, cs |-> <<>>, is_none |-> is_none]

\* a < b for two keys of one type; between an int and a str the comparison
\* raises TypeError (see SortRaises).
KeyLess(a, b) ==
    CASE a.kind = "int" -> a.n < b.n
      [] a.kind = "str" -> TextLess(a.cs, b.cs)
      [] OTHER -> \/ ~a.is_none /\ b.is_none
                  \/ a.is_none = b.is_none /\ a.n < b.n

_uid_sort_key(uid) ==
    IF uid \in DOMAIN IntOf THEN IntKey(IntOf[uid])
    ELSE StrKey(Lower(Chars[uid]))

\* avg_key(s) of _apply_sorting
avg_key(s) ==
    LET a == _avg_of(s.marks)
    IN  TupleKey(a.none, IF a.none THEN 0 ELSE a.h)

\* The key function that _apply_sorting hands to sorted().
SortKey(s, key) ==
    CASE key = "UID" -> _uid_sort_key(s.uid)
      [] key = "Name" -> StrKey(Lower(Chars[s.name]))
      [] key = "Class" -> StrKey(Lower(Chars[s.student_class]))
      [] OTHER -> avg_key(s)

\* sorted() raises TypeError: two elements next to each other in the result
\* have to be compared, so a list that holds both int and str keys cannot
\* be sorted without comparing an int with a str.
SortRaises(data_list, key) ==
    \E i, k \in 1..Len(data_list) :
        SortKey(data_list[i], key).kind # SortKey(data_list[k], key).kind

\* sorted(data_list, key=..., reverse=reverse): stable in both directions.
RECURSIVE Sorted(_, _, _)
Sorted(data_list, key, reverse) ==
    IF data_list = <<>> THEN <<>>
    ELSE LET K(n) == SortKey(data_list[n], key)
             Before(a, b) == IF reverse THEN KeyLess(b, a) ELSE KeyLess(a, b)
             first == {k \in 1..Len(data_list) :
                          \A n \in 1..Len(data_list) : ~Before(K(n), K(k))}
             m == CHOOSE k \in first : \A n \in first : k <= n
         IN  <<data_list[m]>> \o
             Sorted([n \in 1..(Len(data_list) - 1) |->
                        IF n < m THEN data_list[n] ELSE data_list[n + 1]],
                    key, reverse)

SortColumns == {"UID", "Name", "Class", "Average"}

\* key and asc are the values of self.sort_by and self.sort_asc.
_apply_sorting(data_list, key, asc) ==
    IF key \notin SortColumns THEN data_list
    ELSE IF SortRaises(data_list, key) THEN data_list
    ELSE Sorted(data_list, key, ~asc)

\* The uid column of the tree after refresh_table(data) when the sort
\* controls hold by and asc.
TreeRows(data, by, asc) ==
    LET rows == _apply_sorting(data, by, asc)
    IN  [k \in 1..Len(rows) |-> rows[k].uid]

\* The uid column of the tree after refresh_table(data).
refresh_table(data) == TreeRows(data, sort_by, sort_asc)

\* Returns the uids shown afterwards (tree when the handler raises before
\* refresh_table) and whether the handler ended in an uncaught exception.
search_students(list, query, tree) ==
    LET q == Lower(Strip(Chars[query]))
        s == list[Len(list)]
        combined == Lower(Join(<<" ">>,
                        <<Chars[s.uid], Chars[s.name], Chars[s.student_class],
                          Chars[s.section],
                          Join(<<" ">>, CharsOfAll(s.subjects)),
                          Join(<<" ">>, CharsOfAll(s.marks))>>))
    IN  IF q = <<>>
        THEN [shown |-> refresh_table(list), uncaught |-> FALSE]
        ELSE IF list = <<>>
        THEN [shown |-> tree, uncaught |-> TRUE]
        ELSE IF Contains(combined, q)
        THEN [shown |-> refresh_table(<<s>>), uncaught |-> FALSE]
        ELSE [shown |-> refresh_table(<<>>), uncaught |-> FALSE]

----------------------------------------------------------------------------
(* The sort controls *)

\* The columns of self.tree; every heading calls sort_by_column.
HeaderColumns == {"UID", "Name", "Class", "Section", "Average", "Grade"}

\* The handler that sets the flag to ascending on every click.
sort_by_column_NoFlip(col, by, asc) ==
    IF col \in {"UID", "Name", "Class", "Average"}
    THEN [sort_by |-> col, sort_asc |-> TRUE, refreshed |-> TRUE]
    ELSE [sort_by |-> by, sort_asc |-> asc, refreshed |-> FALSE]

\* by and asc are the values of self.sort_by and self.sort_asc before the
\* click; refreshed tells that refresh_table() ran.
sort_by_column(col, by, asc) ==
    IF col \in {"UID", "Name", "Class", "Average"}
    THEN IF by = col
         THEN [sort_by |-> by, sort_asc |-> ~asc, refreshed |-> TRUE]
         ELSE [sort_by |-> col, sort_asc |-> TRUE, refreshed |-> TRUE]
    ELSE [sort_by |-> by, sort_asc |-> asc, refreshed |-> FALSE]

\* The Clear button: the filters are reset (the model keeps no filter
\* state) and so are the sort controls; refresh_table() follows.
reset_filters_and_refresh ==
    [sort_by |-> "UID", sort_asc |-> TRUE, refreshed |-> TRUE]

----------------------------------------------------------------------------
(* The add / update form *)

\* The mark loop that drops a text float() rejects instead of returning.
ParseMarks_Skip(marks_input) ==
    LET good == SelectSeq(marks_input, IsFloatText)
    IN  [ok |-> TRUE,
         marks |-> [k \in 1..Len(good) |-> StrOfFloat(FloatOf[good[k]])]]

\* marks.append(str(float(m))) for every m, or ValueError
ParseMarks(marks_input) ==
    IF \E k \in 1..Len(marks_input) : ~IsFloatText(marks_input[k])
    THEN [ok |-> FALSE, marks |-> <<>>]
    ELSE [ok |-> TRUE,
          marks |-> [k \in 1..Len(marks_input) |->
                        StrOfFloat(FloatOf[marks_input[k]])]]

\* os.path.splitext(chosen)[1] or ".jpg"
SourceExt == ("p.jpg" :> ".jpg") @@ ("q.jpg" :> ".jpg")

InImagesDir(chosen) == Len(chosen) = 3 /\ chosen[1] = "images"

\* The photo step of save: a file outside IMAGES_DIR is copied to
\* images/<uid><ext>; chosen is NoImage, <<source>> or a path in IMAGES_DIR.
SaveImage(uid, chosen, fs, F) ==
    IF chosen = NoImage
    THEN [files |-> fs, image_target_rel |-> NoImage, notices |-> <<>>]
    ELSE IF InImagesDir(chosen)
    THEN [files |-> fs, image_target_rel |-> chosen, notices |-> <<>>]
    ELSE IF FaultCopy \in F
    THEN [files |-> fs, image_target_rel |-> NoImage, notices |-> <<WarnCopy>>]
    ELSE LET tgt == ImagePath(uid, SourceExt[chosen[1]])
         IN  [files |-> CopyFile(fs, chosen[1], tgt), image_target_rel |-> tgt,
              notices |-> <<>>]

\* The index of the student with this uid in list, 0 if there is none.
IndexOf(list, uid) ==
    IF uid \in Uids(list)
    THEN CHOOSE k \in 1..Len(list) :
            list[k].uid = uid /\ \A n \in 1..(k - 1) : list[n].uid # uid
    ELSE 0

\* Save without the reload: the list as the handler changed it stays.
ReloadAfterSave_Keep(mem, d, F) == [students |-> mem, notices |-> <<>>]

\* self.load_data() at the end of save: self.students is emptied and built
\* again from the rows of the store; mem is the list as the handler changed
\* it (the new Student appended, or the updated one in place).
ReloadAfterSave(mem, d, F) == load_data(d, F)

\* The Save button of _student_form; e holds the texts of the entries
\* (uid, name, student_class, section) and the fields of the subjects and
\* marks entries.
save(mode, e, chosen, list, d, fs, F) ==
    LET parsed == ParseMarks(e.marks_input)
        rejected(notice, fs1, before) ==
            [students |-> list, db |-> d, files |-> fs1,
             notices |-> before \o <<notice>>, form_open |-> TRUE,
             saved |-> NoStudent]
        img == SaveImage(e.uid, chosen, fs, F)
        new == Student(e.uid, e.name, e.student_class, e.section, e.subjects,
                       parsed.marks, img.image_target_rel)
        k == IndexOf(list, e.uid)
        s == [list[k] EXCEPT !.name = e.name,
                             !.student_class = e.student_class,
                             !.section = e.section, !.subjects = e.subjects,
                             !.marks = parsed.marks,
                             !.image_filename =
                                 IF img.image_target_rel # NoImage
                                 THEN img.image_target_rel ELSE @]
        written == IF mode = "add" THEN new ELSE s
        mem == IF mode = "add" THEN Append(list, new)
               ELSE [list EXCEPT ![k] = s]
        up == db_upsert_student_normalized(d, written, 1, F)
        ld == ReloadAfterSave(mem, up.db, F)
    IN  IF e.uid = "" \/ e.name = "" \/ e.student_class = ""
        THEN rejected(ErrRequired, fs, <<>>)
        ELSE IF e.subjects # <<>> /\ Len(e.subjects) # Len(e.marks_input)
        THEN rejected(ErrMismatch, fs, <<>>)
        ELSE IF ~parsed.ok
        THEN rejected(ErrNumeric, fs, <<>>)
        ELSE IF mode = "add" /\ e.uid \in Uids(list)
        THEN rejected(ErrUidExists, img.files, img.notices)
        ELSE IF mode # "add" /\ k = 0
        THEN LET ld0 == ReloadAfterSave(list, d, F)
             IN  [students |-> ld0.students, db |-> d, files |-> img.files,
                  notices |-> img.notices \o <<ErrNotFound>> \o ld0.notices,
                  form_open |-> FALSE, saved |-> NoStudent]
        ELSE [students |-> ld.students, db |-> up.db, files |-> img.files,
              notices |-> img.notices \o up.notices
                          \o <<IF mode = "add" THEN InfoAdded ELSE InfoUpdated>>
                          \o ld.notices,
              form_open |-> FALSE, saved |-> written]

\* The statements that can raise in a click on Save with these entries.
SaveFaults(mode, e, chosen, list, d) ==
    IF \/ e.uid = "" \/ e.name = "" \/ e.student_class = ""
       \/ (e.subjects # <<>> /\ Len(e.subjects) # Len(e.marks_input))
       \/ ~ParseMarks(e.marks_input).ok
    THEN {}
    ELSE (IF chosen # NoImage /\ ~InImagesDir(chosen) THEN {FaultCopy} ELSE {})
         \cup (IF mode = "add" /\ e.uid \in Uids(list) THEN {}
               ELSE {FaultMeta(1), FaultDelLinks(1)}
                    \cup UNION {{FaultSubject(1, j), FaultLink(1, j)} :
                                  j \in 1..Min(Len(e.subjects),
                                               Len(e.marks_input))}
                    \cup {FaultLoad(k) : k \in 0..(Len(d.students) + 1)})

----------------------------------------------------------------------------
(* Deleting *)

WarnSelectDelete == "Select a student to delete."

\* The toolbar's Delete: sel is the selected row of the tree, 0 for none.
delete_student(tree, sel, confirm, list, d, F) ==
    IF sel = 0
    THEN [students |-> list, db |-> d, notices |-> <<WarnSelectDelete>>,
          refreshed |-> FALSE]
    ELSE IF ~confirm
    THEN [students |-> list, db |-> d, notices |-> <<>>, refreshed |-> FALSE]
    ELSE LET del == db_delete_student_normalized(d, tree[sel], F)
             ld == load_data(del.db, F)
         IN  [students |-> ld.students, db |-> del.db,
              notices |-> del.notices \o ld.notices \o <<InfoRemoved>>,
              refreshed |-> TRUE]

\* The profile window's Delete.
_confirm_delete_and_refresh(uid, confirm, list, d, F) ==
    IF ~confirm
    THEN [students |-> list, db |-> d, notices |-> <<>>, refreshed |-> FALSE]
    ELSE LET del == db_delete_student_normalized(d, uid, F)
         IN  [students |-> SelectSeq(list, LAMBDA s : s.uid # uid),
              db |-> del.db, notices |-> del.notices \o <<InfoRemoved>>,
              refreshed |-> TRUE]

----------------------------------------------------------------------------
(* State machine *)

\* What the last handler did.  saved is the Student handed to
\* db_upsert_student_normalized by the form; bad_mark tells that the marks
\* entry held a text that float() rejects; attempted, failed_at and
\* delete_ran describe the run of save_data; deleted and cascaded are the
\* student rows and the link rows that left the store; query is the text of
\* the search entry; mismatch tells that the UID, Name and Class entries
\* were filled and the subjects entry held another number of fields than
\* the marks entry; target is the uid a delete was asked for; col is the
\* column whose header was clicked.
LastOf(op, notices) ==
    [op |-> op, notices |-> notices, uncaught |-> FALSE, form_open |-> FALSE,
     saved |-> NoStudent, bad_mark |-> FALSE, attempted |-> 0,
     failed_at |-> {}, delete_ran |-> FALSE, deleted |-> {}, cascaded |-> 0,
     query |-> "", mismatch |-> FALSE, target |-> "", col |-> ""]

CalcIdle == [kind |-> "idle", marks |-> <<>>, avg |-> NoAvg, grade |-> "",
             data_list |-> <<>>, sort_by |-> "UID", sort_asc |-> TRUE,
             sorted |-> <<>>, done |-> FALSE]

\* The state after StudentManagementApp(root) on a new students.db.
Init ==
    /\ students = <<>>
    /\ db = EmptyDb
    /\ files = {}
    /\ shown = <<>>
    /\ running = TRUE
    /\ faults = 0
    /\ last = LastOf("init", <<>>)
    /\ sort_by = "UID"
    /\ sort_asc = TRUE
    /\ calc = CalcIdle

Entry(uid, name, student_class, section, subjects, marks_input) ==
    [uid |-> uid, name |-> name, student_class |-> student_class,
     section |-> section, subjects |-> subjects, marks_input |-> marks_input]

HasBadMark(marks_input) ==
    \E k \in 1..Len(marks_input) : ~IsFloatText(marks_input[k])

\* A click on Save in the form opened in this mode with these entries, when
\* allow more statements may raise.
ClickSave(mode, e, chosen, allow) ==
    \E F \in FaultSets(SaveFaults(mode, e, chosen, students, db), allow) :
        \E r \in {save(mode, e, chosen, students, db, files, F)} :
            /\ students' = r.students
            /\ db' = r.db
            /\ files' = r.files
            /\ shown' = IF r.form_open THEN shown
                        ELSE refresh_table(r.students)
            /\ faults' = faults + Cardinality(F)
            /\ last' = [LastOf(mode, r.notices) EXCEPT
                           !.form_open = r.form_open,
                           !.saved = r.saved,
                           !.bad_mark = HasBadMark(e.marks_input),
                           !.mismatch =
                               (/\ e.uid # "" /\ e.name # ""
                                /\ e.student_class # ""
                                /\ Len(e.subjects) # Len(e.marks_input))]
            /\ UNCHANGED <<running, calc, sort_by, sort_asc>>

\* add_student_form and its Save button
add_student_form(entries, photos, allow) ==
    /\ running
    /\ \E e \in entries, chosen \in {NoImage} \cup {<<f>> : f \in photos} :
          ClickSave("add", e, chosen, allow)

\* update_student_form (or the profile's Update) for a row of the tree, and
\* the Save button; the UID entry is disabled and the photo defaults to the
\* student's current one.
update_student_form(entries, photos, allow) ==
    /\ running
    /\ \E sel \in 1..Len(shown), e \in entries :
          /\ e.uid = shown[sel]
          /\ IndexOf(students, e.uid) # 0
          /\ \E chosen \in {students[IndexOf(students, e.uid)].image_filename}
                           \cup {<<f>> : f \in photos} :
                ClickSave("update", e, chosen, allow)

\* The toolbar's Delete button
DeleteClicked(answers, allow) ==
    /\ running
    /\ \E sel \in 0..Len(shown), confirm \in answers :
       \E F \in FaultSets(IF sel # 0 /\ confirm
                          THEN {FaultDelete} \cup LoadFaults(db) ELSE {},
                          allow) :
          \E r \in {delete_student(shown, sel, confirm, students, db, F)} :
              /\ students' = r.students
              /\ db' = r.db
              /\ shown' = IF r.refreshed THEN refresh_table(r.students)
                          ELSE shown
              /\ faults' = faults + Cardinality(F)
              /\ last' = [LastOf("delete", r.notices) EXCEPT
                             !.target = IF sel = 0 THEN "" ELSE shown[sel],
                             !.deleted = StoredUids(db) \ StoredUids(r.db),
                             !.cascaded = Len(db.links) - Len(r.db.links)]
              /\ UNCHANGED <<files, running, calc, sort_by, sort_asc>>

\* show_student_profile for a row of the tree, and its Delete button
ProfileDeleteClicked(answers, allow) ==
    /\ running
    /\ \E sel \in 1..Len(shown), confirm \in answers :
       \E F \in FaultSets(IF confirm THEN {FaultDelete} ELSE {}, allow) :
          LET r == _confirm_delete_and_refresh(shown[sel], confirm, students,
                                               db, F)
          IN  /\ IndexOf(students, shown[sel]) # 0
              /\ students' = r.students
              /\ db' = r.db
              /\ shown' = IF r.refreshed THEN refresh_table(r.students)
                          ELSE shown
              /\ faults' = faults + Cardinality(F)
              /\ last' = [LastOf("profile_delete", r.notices) EXCEPT
                             !.target = shown[sel],
                             !.deleted = StoredUids(db) \ StoredUids(r.db),
                             !.cascaded = Len(db.links) - Len(r.db.links)]
              /\ UNCHANGED <<files, running, calc, sort_by, sort_asc>>

SaveDataFaults ==
    {FaultSync} \cup UNION {UpsertFaults(students[i], i) :
                               i \in 1..Len(students)}

\* _on_exit: save_data, close the connection, destroy the window
_on_exit(allow) ==
    /\ running
    /\ \E F \in FaultSets(SaveDataFaults, allow) :
          \E r \in {save_data(students, db, F)} :
              /\ db' = r.db
              /\ running' = FALSE
              /\ faults' = faults + Cardinality(F)
              /\ last' = [LastOf("exit", r.notices) EXCEPT
                             !.attempted = r.attempted,
                             !.failed_at = r.failed_at,
                             !.delete_ran = r.delete_ran,
                             !.deleted = StoredUids(db) \ StoredUids(r.db),
                             !.cascaded = Len(db.links) - Len(r.db.links)]
              /\ UNCHANGED <<students, files, shown, calc, sort_by, sort_asc>>

\* The program is started again: __init__ runs _init_db (CREATE TABLE IF NOT
\* EXISTS), load_data and refresh_table.
__init__(allow) ==
    /\ ~running
    /\ \E F \in FaultSets(LoadFaults(db), allow) :
          \E r \in {load_data(db, F)} :
              /\ students' = r.students
              /\ sort_by' = "UID"
              /\ sort_asc' = TRUE
              /\ shown' = TreeRows(r.students, "UID", TRUE)
              /\ running' = TRUE
              /\ faults' = faults + Cardinality(F)
              /\ last' = LastOf("start", r.notices)
              /\ UNCHANGED <<db, files, calc>>

----------------------------------------------------------------------------
(* Spec: the store under faults.  Complete entries, no photos, and at most *)
(* MaxFails statements raise.                                              *)

StoreEntries ==
    {Entry(uid, name, "x", "a", <<>>, <<>>) : uid \in UIDs, name \in Names}
    \cup {Entry(uid, name, "x", "a", <<"b", "a">>, <<"80", "95">>) :
             uid \in UIDs, name \in Names}

Allow == MaxFails - faults

AddStudent == add_student_form(StoreEntries, {}, Allow)
UpdateStudent == update_student_form(StoreEntries, {}, Allow)
DeleteStudent == DeleteClicked({TRUE}, Allow)
ProfileDelete == ProfileDeleteClicked({TRUE}, Allow)
Exit == _on_exit(Allow)
Start == __init__(Allow)

Next ==
    \/ AddStudent
    \/ UpdateStudent
    \/ DeleteStudent
    \/ ProfileDelete
    \/ Exit
    \/ Start

Spec == Init /\ [][Next]_vars

----------------------------------------------------------------------------
(* SpecForm: the Save button on whatever is typed.  One uid (or none),     *)
(* every subject and mark entry up to MaxSubj fields, a photo or none; no  *)
(* statement raises.                                                       *)

FormEntries ==
    {Entry(uid, "ann", "x", "a", subjects, marks_input) :
        uid \in {"1", ""},
        subjects \in SeqsUpTo(SubjectNames, MaxSubj),
        marks_input \in SeqsUpTo(MarkInputs, MaxSubj)}

FormAdd == add_student_form(FormEntries, Sources, 0)
FormUpdate == update_student_form(FormEntries, Sources, 0)
FormDelete == DeleteClicked({TRUE}, 0)

NextForm ==
    \/ FormAdd
    \/ FormUpdate
    \/ FormDelete

SpecForm == Init /\ [][NextForm]_vars

----------------------------------------------------------------------------
(* SpecPhoto: the Save button with a photo chosen; complete entries        *)
(* without subjects, two photos with the same extension; no statement      *)
(* raises.                                                                 *)

PhotoEntries ==
    {Entry(uid, name, "x", "a", <<>>, <<>>) : uid \in UIDs, name \in Names}

PhotoAdd == add_student_form(PhotoEntries, Photos, 0)
PhotoUpdate == update_student_form(PhotoEntries, Photos, 0)
PhotoDelete == DeleteClicked({TRUE}, 0)

NextPhoto ==
    \/ PhotoAdd
    \/ PhotoUpdate
    \/ PhotoDelete

SpecPhoto == Init /\ [][NextPhoto]_vars

----------------------------------------------------------------------------
(* SpecView: the table and the search entry; no statement raises.          *)

\* The Search button
SearchStudents ==
    /\ running
    /\ \E query \in Queries :
          LET r == search_students(students, query, shown)
          IN  /\ shown' = r.shown
              /\ last' = [LastOf("search", <<>>) EXCEPT
                             !.uncaught = r.uncaught,
                             !.query = query]
              /\ UNCHANGED <<students, db, files, running, faults, calc, sort_by, sort_asc>>

ViewAdd == add_student_form(StoreEntries, {}, 0)
ViewDelete == DeleteClicked(BOOLEAN, 0)

NextView ==
    \/ ViewAdd
    \/ ViewDelete
    \/ SearchStudents

SpecView == Init /\ [][NextView]_vars

----------------------------------------------------------------------------
(* SpecHeader: the table's headers, the Clear button and the sort          *)
(* controls; no statement raises.                                          *)

\* A click on a column heading of the tree
HeaderClicked ==
    /\ running
    /\ \E col \in HeaderColumns :
          \E r \in {sort_by_column(col, sort_by, sort_asc)} :
              /\ sort_by' = r.sort_by
              /\ sort_asc' = r.sort_asc
              /\ shown' = IF r.refreshed
                          THEN TreeRows(students, r.sort_by, r.sort_asc)
                          ELSE shown
              /\ last' = [LastOf("sort_by_column", <<>>) EXCEPT !.col = col]
              /\ UNCHANGED <<students, db, files, running, faults, calc>>

\* The Clear button
ClearClicked ==
    /\ running
    /\ \E r \in {reset_filters_and_refresh} :
          /\ sort_by' = r.sort_by
          /\ sort_asc' = r.sort_asc
          /\ shown' = TreeRows(students, r.sort_by, r.sort_asc)
          /\ last' = LastOf("reset", <<>>)
          /\ UNCHANGED <<students, db, files, running, faults, calc>>

\* The user picks a value of the "Sort by" combobox or toggles the Asc
\* checkbox: the variables change, no handler runs.
SortControlsChanged ==
    /\ running
    /\ \E by \in SortColumns, asc \in BOOLEAN :
          /\ <<by, asc>> # <<sort_by, sort_asc>>
          /\ sort_by' = by
          /\ sort_asc' = asc
          /\ last' = LastOf("sort_controls", <<>>)
          /\ UNCHANGED <<students, db, files, shown, running, faults, calc>>

HeaderAdd == add_student_form(StoreEntries, {}, 0)

NextHeader ==
    \/ HeaderAdd
    \/ HeaderClicked
    \/ ClearClicked
    \/ SortControlsChanged

SpecHeader == Init /\ [][NextHeader]_vars

----------------------------------------------------------------------------
(* SpecCalc: _avg_of and _grade_of on the mark lists load_data can build   *)
(* and on every average up to MaxAvgH hundredths.                          *)

CalcMarkTexts == {"", "70.0", "80.0", "95.0"}

InitCalc ==
    /\ students = <<>>
    /\ db = EmptyDb
    /\ files = {}
    /\ shown = <<>>
    /\ running = TRUE
    /\ faults = 0
    /\ last = LastOf("init", <<>>)
    /\ sort_by = "UID"
    /\ sort_asc = TRUE
    /\ \/ \E marks \in SeqsUpTo(CalcMarkTexts, MaxMarks) :
             calc = [CalcIdle EXCEPT !.kind = "marks", !.marks = marks]
       \/ \E avg \in {NoAvg} \cup {Avg(h) : h \in 0..MaxAvgH} :
             calc = [CalcIdle EXCEPT !.kind = "avg", !.avg = avg]

\* A row of refresh_table: avg = self._avg_of(s); grade = self._grade_of(avg)
ShowRow ==
    /\ calc.kind = "marks"
    /\ ~calc.done
    /\ calc' = [calc EXCEPT !.avg = _avg_of(calc.marks),
                            !.grade = _grade_of(_avg_of(calc.marks)),
                            !.done = TRUE]
    /\ UNCHANGED <<students, db, files, shown, running, faults, last,
                   sort_by, sort_asc>>

\* self._grade_of(avg)
ShowGrade ==
    /\ calc.kind = "avg"
    /\ ~calc.done
    /\ calc' = [calc EXCEPT !.grade = _grade_of(calc.avg), !.done = TRUE]
    /\ UNCHANGED <<students, db, files, shown, running, faults, last,
                   sort_by, sort_asc>>

NextCalc ==
    \/ ShowRow
    \/ ShowGrade

SpecCalc == InitCalc /\ [][NextCalc]_vars

----------------------------------------------------------------------------
(* SpecSort: _apply_sorting on lists of up to MaxSort students with         *)
(* different uids, integer and not, for every sort column and direction.   *)

SortStudents ==
    {Student("2", "Bob", "x", "a", <<"a">>, <<"80.0">>, NoImage),
     Student("10", "ann", "Y", "a", <<"a">>, <<"95.0">>, NoImage),
     Student("1", "Bob", "Y", "a", <<>>, <<>>, NoImage),
     Student("a1", "ann", "x", "a", <<"a">>, <<"70.0">>, NoImage),
     Student("b", "Bob", "x", "a", <<>>, <<>>, NoImage)}

SortLists ==
    {l \in SeqsUpTo(SortStudents, MaxSort) :
        \A i, k \in 1..Len(l) : l[i].uid = l[k].uid => i = k}

InitSort ==
    /\ students = <<>>
    /\ db = EmptyDb
    /\ files = {}
    /\ shown = <<>>
    /\ running = TRUE
    /\ faults = 0
    /\ last = LastOf("init", <<>>)
    /\ sort_by = "UID"
    /\ sort_asc = TRUE
    /\ \E l \in SortLists, col \in SortColumns, asc \in BOOLEAN :
          calc = [CalcIdle EXCEPT !.kind = "sort", !.data_list = l,
                                  !.sort_by = col, !.sort_asc = asc]

\* data = self._apply_sorting(data) in refresh_table
ApplySorting ==
    /\ calc.kind = "sort"
    /\ ~calc.done
    /\ calc' = [calc EXCEPT !.sorted = _apply_sorting(calc.data_list,
                                                      calc.sort_by,
                                                      calc.sort_asc),
                            !.done = TRUE]
    /\ UNCHANGED <<students, db, files, shown, running, faults, last,
                   sort_by, sort_asc>>

NextSort == ApplySorting

SpecSort == InitSort /\ [][NextSort]_vars

----------------------------------------------------------------------------
(* What the claims speak about *)

DbErrorShown == \E k \in 1..Len(last.notices) : last.notices[k] \in DbErrors
Noticed(n) == \E k \in 1..Len(last.notices) : last.notices[k] = n

\* The row of students with this uid (as a sequence of at most one row).
RowsOf(d, uid) == SelectSeq(d.students, LAMBDA r : r.uid = uid)

\* The (subject name, mark) pairs of the link rows of uid, in rowid order.
StoredPairs(d, uid) ==
    LET ls == LinksOf(d, uid)
    IN  [k \in 1..Len(ls) |-> <<d.subjects[ls[k].subject_id], ls[k].mark>>]

StoredRecord(d, uid) == [row |-> RowsOf(d, uid), pairs |-> StoredPairs(d, uid)]

\* The (subject, mark) pairs of a Student, as the store would hold them.
PairsOf(s) ==
    [k \in 1..Min(Len(s.subjects), Len(s.marks)) |->
        <<s.subjects[k], MarkVal(s.marks[k])>>]

RowOf(s) ==
    [uid |-> s.uid, name |-> s.name, student_class |-> s.student_class,
     section |-> s.section, image_filename |-> s.image_filename]

RecordOf(s) == [row |-> <<RowOf(s)>>, pairs |-> PairsOf(s)]

ReferencedSubjects(list) ==
    UNION {{list[i].subjects[k] : k \in 1..Len(list[i].subjects)} :
              i \in 1..Len(list)}

SubjectsStored(d) == {d.subjects[i] : i \in 1..Len(d.subjects)}

FormSaved == last.op \in {"add", "update"} /\ last.saved # NoStudent

\* C1: a student write is all-or-nothing: after the form handed a student
\* to db_upsert_student_normalized, the store holds for that uid either the
\* complete new record or exactly the row and links it held before.
C1_AllOrNothing ==
    [][ (last'.op \in {"add", "update"} /\ last'.saved # NoStudent)
        => \/ StoredRecord(db', last'.saved.uid) = RecordOf(last'.saved)
           \/ StoredRecord(db', last'.saved.uid)
                 = StoredRecord(db, last'.saved.uid) ]_vars

\* C2: saving then loading is a round trip: when no database error occurred
\* and the subject and mark lists have equal length, the loaded list holds
\* the saved student with the same fields and the same pairs in the same
\* order.
C2_RoundTrip ==
    (FormSaved /\ ~DbErrorShown
       /\ Len(last.saved.subjects) = Len(last.saved.marks))
    => \E k \in 1..Len(students) : students[k] = last.saved

\* The student rows are exactly the in-memory students and the link rows
\* are exactly their (subject, mark) pairs.
RowsAndLinksMatch ==
    /\ StoredUids(db) = Uids(students)
    /\ Len(db.students) = Len(students)
    /\ \A i \in 1..Len(students) :
          StoredRecord(db, students[i].uid) = RecordOf(students[i])
    /\ \A k \in 1..Len(db.links) : db.links[k].student_uid \in Uids(students)

SyncCompleted == last.op = "exit" /\ ~DbErrorShown

\* C3 as claimed: after save_data without a database error the store
\* matches the in-memory list, and the subjects table holds exactly the
\* subject names the in-memory students reference.
C3_StoreMatchesExactly ==
    SyncCompleted
    => RowsAndLinksMatch /\ SubjectsStored(db) = ReferencedSubjects(students)

\* C3 as amended: after save_data without a database error the student rows
\* and the link rows match the in-memory list, and the subjects table holds
\* every subject name the in-memory students reference (and possibly names
\* that no student references any more).
C3_StoreMatches ==
    SyncCompleted
    => RowsAndLinksMatch /\ ReferencedSubjects(students) \subseteq SubjectsStored(db)

C3_Witness ==
    /\ SyncCompleted
    /\ students # <<>>
    /\ db.links # <<>>
    /\ last.deleted # {}

\* C4: after save_data without a database error no student row remains
\* whose uid is absent from the in-memory list, also when the list is empty.
C4_AbsentRemoved ==
    SyncCompleted
    => /\ StoredUids(db) \subseteq Uids(students)
       /\ (students = <<>> => db.students = <<>>)

C4_Witness ==
    /\ SyncCompleted
    /\ students = <<>>
    /\ last.deleted # {}

\* C5: every link row refers to a student row that exists.
C5_NoOrphanLinks ==
    \A k \in 1..Len(db.links) : db.links[k].student_uid \in StoredUids(db)

C5_Witness ==
    /\ last.op \in {"delete", "profile_delete", "exit"}
    /\ last.deleted # {}
    /\ last.cascaded > 0
    /\ db.students # <<>>

\* C8: when a database error occurs while save_data writes one of the
\* students, the reconciliation is abandoned: no later student is written
\* and the delete pass does not run.
C8_SyncAbandoned ==
    last.op = "exit"
    => \A i \in last.failed_at : last.attempted <= i /\ ~last.delete_ran

\* C6: no user operation ends in an uncaught failure.
C6_NoUncaughtFailure == ~last.uncaught

\* C7: when a mark entered in the form cannot be parsed as a number, Save
\* shows one validation message, leaves the in-memory list, the store and
\* the image files unchanged, and the form stays open.
C7_BadMarkBlocksSave ==
    [][ (last'.op \in {"add", "update"} /\ last'.bad_mark)
        => /\ students' = students
           /\ db' = db
           /\ files' = files
           /\ last'.form_open
           /\ Len(last'.notices) = 1
           /\ last'.notices[1] \in ValidationErrors ]_vars

C7_Witness ==
    /\ last.op \in {"add", "update"}
    /\ last.bad_mark
    /\ last.notices = <<ErrNumeric>>
    /\ students # <<>>

\* The numeric marks of a list, as whole numbers.
NumericMarks(marks) ==
    LET texts == SelectSeq(marks, LAMBDA x : x # "")
    IN  [k \in 1..Len(texts) |-> FloatOf[texts[k]].v]

\* C9: _grade_of maps an average to a grade by fixed thresholds: "A"
\* exactly from 90 up, "B" exactly from 75 up to below 90, "C" below 75 and
\* "N/A" exactly when there is no average.
C9_GradeThresholds ==
    calc.done
    => /\ (calc.grade = "N/A") <=> calc.avg.none
       /\ (calc.grade = "A") <=> (~calc.avg.none /\ calc.avg.h >= 9000)
       /\ (calc.grade = "B")
             <=> (~calc.avg.none /\ calc.avg.h >= 7500 /\ calc.avg.h < 9000)
       /\ (~calc.avg.none /\ calc.avg.h < 7500) => calc.grade = "C"

C9_Witness ==
    /\ calc.done
    /\ calc.kind = "avg"
    /\ calc.avg = Avg(9000)
    /\ calc.grade = "A"

\* C10: _avg_of returns the mean of the numeric marks rounded to two
\* decimals (the hundredth nearest to the mean); for an empty mark list or
\* only blank marks it returns no average and the grade is "N/A".
C10_AverageIsRoundedMean ==
    (calc.done /\ calc.kind = "marks")
    => LET vals == NumericMarks(calc.marks)
           n == Len(vals)
           d == n * calc.avg.h - 100 * Sum(vals)
       IN  IF n = 0
           THEN calc.avg.none /\ calc.grade = "N/A"
           ELSE ~calc.avg.none /\ 2 * d <= n /\ 2 * d >= -n

C10_Witness ==
    /\ calc.done
    /\ calc.marks = <<"70.0", "", "80.0">>
    /\ calc.avg = Avg(7500)
    /\ calc.grade = "B"

\* The subject names of the students handed to db_upsert_student_normalized
\* by the handler that just ran.
WrittenSubjects ==
    IF last.op \in {"add", "update"} THEN ReferencedSubjects(<<last.saved>>)
    ELSE IF last.op = "exit" THEN ReferencedSubjects(students)
    ELSE {}

\* C11: the subjects table holds no two rows with the same name, every link
\* row refers to an existing subject row, a subject row appears only when a
\* student written in that step references its name, and a subject keeps
\* its id: the rows already stored stay where they are.
C11_SubjectsUniqueAndLazy ==
    [][ /\ \A i, k \in 1..Len(db'.subjects) :
              db'.subjects[i] = db'.subjects[k] => i = k
        /\ \A k \in 1..Len(db'.links) :
              db'.links[k].subject_id \in 1..Len(db'.subjects)
        /\ Len(db'.subjects) >= Len(db.subjects)
        /\ \A i \in 1..Len(db.subjects) : db'.subjects[i] = db.subjects[i]
        /\ SubjectsStored(db') \ SubjectsStored(db) \subseteq WrittenSubjects' ]_vars

\* Two students are linked to one subject row, created by the first save
\* and found again by the second.
C11_Witness ==
    /\ FormSaved
    /\ Len(db.subjects) = 2
    /\ \E k, n \in 1..Len(db.links) :
          /\ db.links[k].student_uid # db.links[n].student_uid
          /\ db.links[k].subject_id = db.links[n].subject_id
          /\ db.links[n].student_uid = last.saved.uid

\* C12: after every completed operation every in-memory student has as many
\* marks as subjects, whatever the form accepted (also marks entered with no
\* subject at all).
C12_EqualLengths ==
    \A i \in 1..Len(students) :
        Len(students[i].subjects) = Len(students[i].marks)

\* The form accepted marks without subjects and the student is in memory.
C12_Witness ==
    /\ FormSaved
    /\ last.saved.subjects = <<>>
    /\ last.saved.marks # <<>>
    /\ last.saved.uid \in Uids(students)

\* C13: student identifiers are unique: no two students of the in-memory
\* list and no two rows of the students table have the same uid.
C13_UniqueUids ==
    /\ \A i, k \in 1..Len(students) :
          students[i].uid = students[k].uid => i = k
    /\ \A i, k \in 1..Len(db.students) :
          db.students[i].uid = db.students[k].uid => i = k

\* An add of a uid that is taken was turned away while two students exist,
\* one of them written twice.
C13_Witness ==
    /\ last.op = "add"
    /\ Noticed(ErrUidExists)
    /\ Len(students) = 2
    /\ Len(db.students) = 2
    /\ db.students[1].uid = "2"
    /\ db.students[1].name = "Bob"

\* The records of the list other than the one of uid.
OtherRecords(list, uid) == {list[i] : i \in {k \in 1..Len(list) : list[k].uid # uid}}

\* C14: an update through the form that shows no database error replaces
\* the student's links wholesale: the stored pairs of that uid are exactly
\* the entered pairs, the row and the links of every other student are
\* unchanged, and every other in-memory record is still there as it was.
C14_UpdateReplacesWholesale ==
    [][ (last'.op = "update" /\ last'.saved # NoStudent /\ ~DbErrorShown')
        => LET u == last'.saved.uid
           IN  /\ StoredPairs(db', u) = PairsOf(last'.saved)
               /\ RowsOf(db', u) = <<RowOf(last'.saved)>>
               /\ StoredUids(db') \ {u} = StoredUids(db) \ {u}
               /\ \A v \in StoredUids(db) \ {u} :
                     StoredRecord(db', v) = StoredRecord(db, v)
               /\ OtherRecords(students, u) \subseteq OtherRecords(students', u) ]_vars

\* An update replaced two links by none while another student has links.
C14_Witness ==
    /\ last.op = "update"
    /\ last.saved # NoStudent
    /\ ~DbErrorShown
    /\ last.saved.subjects = <<>>
    /\ LinksOf(db, last.saved.uid) = <<>>
    /\ Len(db.subjects) = 2
    /\ \E v \in StoredUids(db) \ {last.saved.uid} : Len(LinksOf(db, v)) = 2

\* The fields of one student that the search looks at, joined and
\* lower-cased.
SearchText(s) ==
    Lower(Join(<<" ">>,
               <<Chars[s.uid], Chars[s.name], Chars[s.student_class],
                 Chars[s.section], Join(<<" ">>, CharsOfAll(s.subjects)),
                 Join(<<" ">>, CharsOfAll(s.marks))>>))

\* C15: after a search with a non-blank query the table shows exactly the
\* in-memory students whose joined, lower-cased fields contain the
\* lower-cased query.
C15_SearchShowsMatches ==
    (last.op = "search" /\ Strip(Chars[last.query]) # <<>>)
    => {shown[k] : k \in 1..Len(shown)}
          = {students[i].uid : i \in {n \in 1..Len(students) :
                Contains(SearchText(students[n]),
                         Lower(Strip(Chars[last.query])))}}

\* C16: Save rejects every input whose number of subjects differs from its
\* number of marks: it shows the message that they must match and changes
\* neither the in-memory list nor the store (checked for inputs whose UID,
\* Name and Class are filled).
C16_MismatchRejected ==
    [][ (last'.op \in {"add", "update"} /\ last'.mismatch)
        => /\ last'.notices = <<ErrMismatch>>
           /\ students' = students
           /\ db' = db ]_vars

\* C17: _apply_sorting returns a permutation of its input in which the keys
\* of the selected column never decrease when Asc is set and never increase
\* otherwise (for the keys the column's order compares: two numbers, two
\* texts, two averages).
C17_SortedByKey ==
    (calc.done /\ calc.kind = "sort")
    => /\ Len(calc.sorted) = Len(calc.data_list)
       /\ {calc.sorted[i] : i \in 1..Len(calc.sorted)}
             = {calc.data_list[i] : i \in 1..Len(calc.data_list)}
       /\ \A i, k \in 1..Len(calc.sorted) :
             LET a == SortKey(calc.sorted[i], calc.sort_by)
                 b == SortKey(calc.sorted[k], calc.sort_by)
             IN  (i < k /\ a.kind = b.kind)
                 => IF calc.sort_asc THEN ~KeyLess(b, a) ELSE ~KeyLess(a, b)

\* C18: after every add, update or delete, from the toolbar or the profile
\* window, the in-memory uids are the stored uids and every in-memory
\* record is the one load_data builds from the store.
C18_MemoryAgreesWithStore ==
    last.op \in {"add", "update", "delete", "profile_delete"}
    => /\ Uids(students) = StoredUids(db)
       /\ \A i \in 1..Len(students) :
             <<students[i]>>
                = [k \in 1..Len(RowsOf(db, students[i].uid)) |->
                      LoadStudent(db, RowsOf(db, students[i].uid)[k])]

\* C19: a success notice is shown only when the store reflects the change:
\* "Student added." and "Student updated." only with the student's row and
\* links committed and no database error shown for the write, "Student
\* removed." only with the student's row gone from the store.
C19_SuccessOnlyWhenCommitted ==
    /\ (last.op \in {"add", "update"}
          /\ (Noticed(InfoAdded) \/ Noticed(InfoUpdated)))
       => /\ StoredRecord(db, last.saved.uid) = RecordOf(last.saved)
          /\ ~Noticed(ErrSave)
          /\ ~Noticed(ErrSubjectId)
    /\ (last.op \in {"delete", "profile_delete"} /\ Noticed(InfoRemoved))
       => /\ last.target \notin StoredUids(db)
          /\ ~Noticed(ErrDelete)

\* C20: an add whose uid is already in memory is rejected with "UID already
\* exists." and has no effect: the in-memory list and the store are
\* unchanged and every image file that existed is still there with the
\* content it had.
C20_DuplicateAddHasNoEffect ==
    [][ (last'.op = "add" /\ Noticed(ErrUidExists)')
        => /\ students' = students
           /\ db' = db
           /\ \A f \in files : f \in files' ]_vars

\* C21: sort_by_column is a state machine over (sort column, ascending
\* flag): a click on the header of the current sort column keeps the column
\* and flips the flag, a click on another of UID, Name, Class, Average
\* selects that column and sets the flag, a click on Section or Grade
\* changes neither, and reset_filters_and_refresh always leads to (UID,
\* ascending).
C21_SortStateMachine ==
    [][ /\ last'.op = "sort_by_column"
           => IF last'.col \in {"UID", "Name", "Class", "Average"}
              THEN IF last'.col = sort_by
                   THEN sort_by' = sort_by /\ sort_asc' = ~sort_asc
                   ELSE sort_by' = last'.col /\ sort_asc' = TRUE
              ELSE sort_by' = sort_by /\ sort_asc' = sort_asc
        /\ last'.op = "reset" => sort_by' = "UID" /\ sort_asc' = TRUE ]_vars

\* The header of the current sort column Name was clicked and the table of
\* two students is now sorted by name, descending.
C21_Witness ==
    /\ last.op = "sort_by_column"
    /\ last.col = "Name"
    /\ sort_by = "Name"
    /\ ~sort_asc
    /\ Len(students) = 2
    /\ shown = <<"1", "2">>
    /\ \E i \in 1..2 : students[i].uid = "1" /\ students[i].name = "Bob"
    /\ \E i \in 1..2 : students[i].uid = "2" /\ students[i].name = "ann"

====
